---- MODULE Spec2Model ----
(***************************************************************************)
(* Model of the stock dashboard: the modular revision (utils.py,           *)
(* chart_components.py, analysis.py) and the monolithic revision           *)
(* (Stock_Market.py).                                                      *)
(*                                                                         *)
(* A function with a try block is modelled by how the block ends (Return,  *)
(* Raise, Pass) and by what its handler makes of that; an exception that   *)
(* leaves a function is recorded in uncaught.                              *)
(*                                                                         *)
(* One script run (a Streamlit rerun) is request scoped: it fetches,       *)
(* computes, renders, and everything but the session state is dropped by   *)
(* the next run.  pc = "idle" is the point between two runs.               *)
(*                                                                         *)
(* Prices are integers in units of PriceUnit (0.1), so that 50.5 is 505.   *)
(* pandas' float64 arithmetic is modelled by exact rationals extended with *)
(* the IEEE values inf, -inf and NaN that a division by zero produces;     *)
(* rounding error of the binary representation is not modelled.            *)
(***************************************************************************)
EXTENDS Integers, Sequences, FiniteSets, TLC

\* ------------------------------------------------------------------ bounds
\* comparison series: trading days 1..MaxDate, closes 0..MaxClose
MaxDate == 2
MaxClose == 2
\* history series: 1..MaxBars bars, close steps in -1..MaxStep
MaxBars == 22
MaxStep == 1

\* ------------------------------------------------- float64 as rationals
\* a value is [k, n, d]: k = "fin" is the rational n/d (d > 0)
Fin(n, d) == [k |-> "fin", n |-> IF d < 0 THEN -n ELSE n, d |-> IF d < 0 THEN -d ELSE d]
NaN == [k |-> "nan", n |-> 0, d |-> 1]
Inf == [k |-> "inf", n |-> 1, d |-> 1]
NInf == [k |-> "inf", n |-> -1, d |-> 1]
Num(i) == Fin(i, 1)

IsFin(a) == a.k = "fin"
IsNaN(a) == a.k = "nan"
IsInf(a) == a.k = "inf"
Sgn(i) == IF i > 0 THEN 1 ELSE IF i < 0 THEN -1 ELSE 0
SignedInf(s) == IF s > 0 THEN Inf ELSE NInf

\* equality of values as numbers (NaN equals nothing, as in IEEE)
FEq(a, b) ==
    IF IsNaN(a) \/ IsNaN(b) THEN FALSE
    ELSE IF IsInf(a) \/ IsInf(b) THEN IsInf(a) /\ IsInf(b) /\ a.n = b.n
    ELSE a.n * b.d = b.n * a.d

FDiv(a, b) ==
    IF IsNaN(a) \/ IsNaN(b) THEN NaN
    ELSE IF IsInf(a) THEN (IF IsInf(b) THEN NaN
                           ELSE SignedInf(a.n * (IF b.n < 0 THEN -1 ELSE 1)))
    ELSE IF IsInf(b) THEN Num(0)
    ELSE IF b.n = 0 THEN (IF a.n = 0 THEN NaN ELSE SignedInf(a.n))
    ELSE Fin(a.n * b.d, a.d * b.n)

FSub(a, b) ==
    IF IsNaN(a) \/ IsNaN(b) THEN NaN
    ELSE IF IsInf(a) THEN (IF IsInf(b) /\ a.n = b.n THEN NaN ELSE a)
    ELSE IF IsInf(b) THEN SignedInf(-b.n)
    ELSE Fin(a.n * b.d - b.n * a.d, a.d * b.d)

FAdd(a, b) ==
    IF IsNaN(a) \/ IsNaN(b) THEN NaN
    ELSE IF IsInf(a) THEN (IF IsInf(b) /\ a.n # b.n THEN NaN ELSE a)
    ELSE IF IsInf(b) THEN b
    ELSE Fin(a.n * b.d + b.n * a.d, a.d * b.d)

FMul(a, b) ==
    IF IsNaN(a) \/ IsNaN(b) THEN NaN
    ELSE IF IsInf(a) \/ IsInf(b)
         THEN (IF a.n = 0 \/ b.n = 0 THEN NaN ELSE SignedInf(Sgn(a.n) * Sgn(b.n)))
    ELSE Fin(a.n * b.n, a.d * b.d)

\* ------------------------------------------------------------ the tables
\* Optional[DataFrame]: None is the empty sequence, a table t is <<t>>
None == <<>>
Some(t) == <<t>>
IsNone(o) == o = <<>>
The(o) == o[1]

\* how a block of code ends: it returns a value or raises an exception
Return(v) == [kind |-> "return", value |-> v, exc |-> <<>>]
Raise(e) == [kind |-> "raise", value |-> None, exc |-> <<e>>]
\* mutant: no handler, the exception leaves the function
Propagate(r, v) == r
\* try: r  except: return v
Except(r, v) == IF r.kind = "raise" THEN Return(v) ELSE r

BaseColumns == {"Date", "Open", "High", "Low", "Close", "Volume"}

\* a provider bar: the timestamp carries the exchange's timezone
Bar(day, tz, close) ==
    [Date |-> [day |-> day, tz |-> tz], Open |-> close, High |-> close + 1,
     Low |-> close, Close |-> close, Volume |-> 1]

\* ----------------------------------------------- exact naturals (limbs)
\* Wilder's average of bar t has denominator 14^t, beyond 32-bit integers:
\* a natural is its little-endian sequence of limbs, without leading zeros
LimbBase == 10 ^ 4

RECURSIVE BigOfNat(_)
BigOfNat(i) == IF i = 0 THEN <<>> ELSE <<i % LimbBase>> \o BigOfNat(i \div LimbBase)

RECURSIVE BigAddC(_, _, _)
BigAddC(a, b, c) ==
    IF a = <<>> /\ b = <<>> THEN BigOfNat(c)
    ELSE LET x == IF a = <<>> THEN 0 ELSE Head(a)
             y == IF b = <<>> THEN 0 ELSE Head(b)
             s == x + y + c
         IN  <<s % LimbBase>>
             \o BigAddC(IF a = <<>> THEN a ELSE Tail(a),
                        IF b = <<>> THEN b ELSE Tail(b), s \div LimbBase)
BigAdd(a, b) == BigAddC(a, b, 0)

RECURSIVE BigMulC(_, _, _)
BigMulC(a, m, c) ==
    IF a = <<>> THEN BigOfNat(c)
    ELSE LET s == Head(a) * m + c
         IN  <<s % LimbBase>> \o BigMulC(Tail(a), m, s \div LimbBase)
\* a times the small natural m
BigMulSmall(a, m) == IF m = 0 THEN <<>> ELSE BigMulC(a, m, 0)

RECURSIVE BigMul(_, _)
BigMul(a, b) ==
    IF a = <<>> \/ b = <<>> THEN <<>>
    ELSE BigAdd(BigMulSmall(a, Head(b)),
                LET r == BigMul(a, Tail(b)) IN IF r = <<>> THEN r ELSE <<0>> \o r)

RECURSIVE BigStrip(_)
BigStrip(a) ==
    IF a = <<>> THEN a
    ELSE IF a[Len(a)] = 0 THEN BigStrip(SubSeq(a, 1, Len(a) - 1)) ELSE a

RECURSIVE BigSubB(_, _, _)
BigSubB(a, b, w) ==
    IF a = <<>> THEN <<>>
    ELSE LET y == IF b = <<>> THEN 0 ELSE Head(b)
             s == Head(a) - y - w
         IN  <<IF s < 0 THEN s + LimbBase ELSE s>>
             \o BigSubB(Tail(a), IF b = <<>> THEN b ELSE Tail(b), IF s < 0 THEN 1 ELSE 0)
\* a - b for a >= b
BigSub(a, b) == BigStrip(BigSubB(a, b, 0))

RECURSIVE BigLess(_, _)
BigLess(a, b) ==
    IF Len(a) # Len(b) THEN Len(a) < Len(b)
    ELSE IF a = <<>> THEN FALSE
    ELSE IF a[Len(a)] # b[Len(b)] THEN a[Len(a)] < b[Len(b)]
    ELSE BigLess(SubSeq(a, 1, Len(a) - 1), SubSeq(b, 1, Len(b) - 1))
BigLeq(a, b) == a = b \/ BigLess(a, b)

\* ------------------------------------- float64 values of the RSI columns
\* [k, n, d]: k = "fin" is the rational n/d >= 0 of two exact naturals;
\* "nzero" is IEEE -0.0, which -delta.where(delta < 0, 0) puts in every
\* entry of loss that is not a loss
BFin(n, d) == [k |-> "fin", n |-> n, d |-> d]
BNum(i) == BFin(BigOfNat(i), BigOfNat(1))
BNaN == [k |-> "nan", n |-> <<>>, d |-> <<>>]
BInf == [k |-> "inf", n |-> <<>>, d |-> <<>>]
BNInf == [k |-> "ninf", n |-> <<>>, d |-> <<>>]
BNZero == [k |-> "nzero", n |-> <<>>, d |-> <<1>>]
BIsZero(a) == a.k = "nzero" \/ (a.k = "fin" /\ a.n = <<>>)

BEq(a, b) ==
    IF a.k = "nan" \/ b.k = "nan" THEN FALSE
    ELSE IF BIsZero(a) \/ BIsZero(b) THEN BIsZero(a) /\ BIsZero(b)
    ELSE IF a.k # "fin" \/ b.k # "fin" THEN a.k = b.k
    ELSE BigMul(a.n, b.d) = BigMul(b.n, a.d)

BLeq(a, b) ==
    IF a.k = "nan" \/ b.k = "nan" THEN FALSE
    ELSE IF a.k = "ninf" \/ b.k = "inf" THEN TRUE
    ELSE IF a.k = "inf" \/ b.k = "ninf" THEN FALSE
    ELSE IF BIsZero(a) THEN TRUE
    ELSE IF BIsZero(b) THEN FALSE
    ELSE BigLeq(BigMul(a.n, b.d), BigMul(b.n, a.d))

\* a / b for a, b >= 0 (or -0.0, or +-inf)
BDiv(a, b) ==
    IF a.k = "nan" \/ b.k = "nan" THEN BNaN
    ELSE IF a.k \in {"inf", "ninf"}
         THEN (IF b.k \in {"inf", "ninf"} THEN BNaN
               ELSE IF (a.k = "inf") = (b.k = "fin") THEN BInf ELSE BNInf)
    ELSE IF b.k = "inf" THEN (IF a.k = "fin" THEN BNum(0) ELSE BNZero)
    ELSE IF b.k = "ninf" THEN (IF a.k = "fin" THEN BNZero ELSE BNum(0))
    ELSE IF BIsZero(b)
         THEN (IF BIsZero(a) THEN BNaN
               ELSE IF b.k = "fin" THEN BInf ELSE BNInf)
    ELSE IF BIsZero(a) THEN a
    ELSE IF a.d = b.d THEN BFin(a.n, b.n)
    ELSE BFin(BigMul(a.n, b.d), BigMul(a.d, b.n))

\* a + b for a, b >= 0 (or -0.0, or +-inf)
BAdd(a, b) ==
    IF a.k = "nan" \/ b.k = "nan" THEN BNaN
    ELSE IF a.k \in {"inf", "ninf"}
         THEN (IF b.k \in {"inf", "ninf"} /\ a.k # b.k THEN BNaN ELSE a)
    ELSE IF b.k \in {"inf", "ninf"} THEN b
    ELSE IF a.k = "nzero" THEN b
    ELSE IF b.k = "nzero" THEN a
    ELSE IF a.d = b.d THEN BFin(BigAdd(a.n, b.n), a.d)
    ELSE BFin(BigAdd(BigMul(a.n, b.d), BigMul(b.n, a.d)), BigMul(a.d, b.d))

\* a - b for finite a >= b >= 0 (b may be -0.0 or +inf... the RSI formula
\* subtracts a quotient in [0, 100] from 100)
BSub(a, b) ==
    IF a.k = "nan" \/ b.k = "nan" THEN BNaN
    ELSE IF b.k = "inf" THEN BNInf
    ELSE IF b.k = "ninf" THEN BInf
    ELSE IF BIsZero(b) THEN a
    ELSE IF a.d = b.d THEN BFin(BigSub(a.n, b.n), a.d)
    ELSE BFin(BigSub(BigMul(a.n, b.d), BigMul(b.n, a.d)), BigMul(a.d, b.d))

\* ------------------------------------------------------ program constants
Com == 13
MinPeriods == 14
RsiWindow == 14
SmaShort == 5
SmaLong == 20
BBWindow == 20
BBWidth == 2
UtilsIndicatorLen == 20
SmIndicatorLen == 14

\* ------------------------------------------------------------ indicators
RECURSIVE SumSeq(_, _, _)
\* x[lo] + ... + x[hi]
SumSeq(x, lo, hi) == IF lo > hi THEN 0 ELSE x[hi] + SumSeq(x, lo, hi - 1)

CloseOf(bars) == [i \in 1..Len(bars) |-> bars[i].Close]

\* df["Close"].diff(): undefined at the first bar
Delta(c, i) == c[i] - c[i - 1]
\* delta.where(delta > 0, 0): NaN > 0 is false, so the first entry is 0
Gain(c) == [i \in 1..Len(c) |-> IF i > 1 /\ Delta(c, i) > 0 THEN Delta(c, i) ELSE 0]
\* -delta.where(delta < 0, 0): the magnitudes of the losses (0 stands for -0.0)
Loss(c) == [i \in 1..Len(c) |-> IF i > 1 /\ Delta(c, i) < 0 THEN -Delta(c, i) ELSE 0]

\* one step of ewm(com, adjust=False): y' = (com * y + x) / (com + 1).
\* negz: x is a -0.0 entry; the average stays -0.0 while every entry was
EwmStep(y, x, negz) ==
    [k |-> IF y.k = "nzero" /\ x = 0 /\ negz THEN "nzero" ELSE "fin",
     n |-> BigAdd(BigMulSmall(y.n, Com), BigMulSmall(y.d, x)),
     d |-> BigMulSmall(y.d, Com + 1)]

RECURSIVE EwmAcc(_, _, _, _)
EwmAcc(x, negz, i, acc) ==
    IF i > Len(x) THEN acc
    ELSE EwmAcc(x, negz, i + 1, Append(acc, EwmStep(acc[i - 1], x[i], negz)))

\* x.ewm(com=13, min_periods=14, adjust=False).mean()
EwmMean(x, negz) ==
    IF x = <<>> THEN <<>>
    ELSE LET first == IF x[1] = 0 /\ negz THEN BNZero ELSE BNum(x[1])
             all == EwmAcc(x, negz, 2, <<first>>)
         IN  [i \in 1..Len(x) |-> IF i < MinPeriods THEN BNaN ELSE all[i]]

\* mutant: 100 / rs, the strength ratio is neither shifted by 1 nor complemented
RsiOfUnnormalised(rs) == BDiv(BNum(100), rs)

\* 100 - (100 / (1 + rs))
RsiOf(rs) == BSub(BNum(100), BDiv(BNum(100), BAdd(BNum(1), rs)))

\* utils._calculate_indicators, the RSI column
UtilsRsi(c) ==
    LET avg_gain == EwmMean(Gain(c), FALSE)
        avg_loss == EwmMean(Loss(c), TRUE)
    IN  [i \in 1..Len(c) |-> RsiOf(BDiv(avg_gain[i], avg_loss[i]))]

\* x.rolling(window).mean() of a column without NaN, as an RSI value (the
\* sign of a zero mean depends on the pandas version and changes no result)
RollingMeanB(x, w) ==
    [i \in 1..Len(x) |->
        IF i < w THEN BNaN ELSE BFin(BigOfNat(SumSeq(x, i - w + 1, i)), BigOfNat(w))]

\* Stock_Market.calculate_rsi
calculate_rsi(c) ==
    LET gain == RollingMeanB(Gain(c), RsiWindow)
        loss == RollingMeanB(Loss(c), RsiWindow)
    IN  [i \in 1..Len(c) |-> RsiOf(BDiv(gain[i], loss[i]))]

\* mutant: rolling(window=w, min_periods=1), the mean of the bars there are
RollingMeanPartial(c, w) ==
    [i \in 1..Len(c) |->
        IF i < w THEN Fin(SumSeq(c, 1, i), i) ELSE Fin(SumSeq(c, i - w + 1, i), w)]

\* df["Close"].rolling(window=w).mean()
RollingMean(c, w) ==
    [i \in 1..Len(c) |-> IF i < w THEN NaN ELSE Fin(SumSeq(c, i - w + 1, i), w)]

\* the square of df["Close"].rolling(window=w).std() (sample variance)
RollingVar(c, w) ==
    [i \in 1..Len(c) |->
        IF i < w THEN NaN
        ELSE LET s == SumSeq(c, i - w + 1, i)
                 q == SumSeq([j \in 1..Len(c) |-> c[j] * c[j]], i - w + 1, i)
             IN  Fin(w * q - s * s, w * (w - 1))]

\* mutant: the deviation is subtracted in both bands
BandBelow(mid, var, mult) ==
    IF IsNaN(mid) \/ IsNaN(var) THEN [k |-> "nan", mid |-> NaN, var |-> NaN, mult |-> mult]
    ELSE [k |-> "fin", mid |-> mid, var |-> var, mult |-> IF mult > 0 THEN -mult ELSE mult]

\* mid + mult * std, kept as the pair (mid, std^2): the root is not rational
Band(mid, var, mult) ==
    IF IsNaN(mid) \/ IsNaN(var) THEN [k |-> "nan", mid |-> NaN, var |-> NaN, mult |-> mult]
    ELSE [k |-> "fin", mid |-> mid, var |-> var, mult |-> mult]

IndicatorColumns == {"RSI", "SMA5", "SMA20", "BB_Upper", "BB_Lower"}

\* a table: the bars, the names of its columns, and the derived columns
\* (an absent column is the empty sequence)
Table(bars) ==
    [bars |-> bars, columns |-> BaseColumns, RSI |-> <<>>, SMA5 |-> <<>>,
     SMA20 |-> <<>>, BB_Upper |-> <<>>, BB_Lower |-> <<>>]

calculate_indicators(df) ==
    LET c == CloseOf(df.bars)
        sma20 == RollingMean(c, SmaLong)
        var == RollingVar(c, BBWindow)
    IN  [df EXCEPT !.columns = @ \cup IndicatorColumns,
                   !.RSI = UtilsRsi(c),
                   !.SMA5 = RollingMean(c, SmaShort),
                   !.SMA20 = sma20,
                   !.BB_Upper = [i \in 1..Len(c) |-> Band(sma20[i], var[i], BBWidth)],
                   !.BB_Lower = [i \in 1..Len(c) |-> Band(sma20[i], var[i], -BBWidth)]]

\* mutant: no copy, the columns are assigned on the caller's table
indicators_call_in_place(df) ==
    [arg |-> calculate_indicators(df), ret |-> calculate_indicators(df)]

\* the call _calculate_indicators(df): line 46 rebinds df to a copy and the
\* columns are assigned on the copy; arg is the caller's table after the
\* call, ret the table returned
indicators_call(df) == [arg |-> df, ret |-> calculate_indicators(df)]

\* ----------------------------------------------------------- the provider
\* what yf.Ticker(ticker).history(...) does: it raises, returns an empty
\* table, or returns bars indexed by "Date" (daily) or "Datetime" (intraday)
RaiseResp == [kind |-> "raise", index |-> "Date", bars |-> <<>>]
EmptyResp == [kind |-> "empty", index |-> "Date", bars |-> <<>>]
OkResp(index, bars) == [kind |-> "ok", index |-> index, bars |-> bars]
NoResp == [kind |-> "none", index |-> "Date", bars |-> <<>>]

\* history series: n bars from BasePrice, stepping by d1 up to the middle
\* bar and by d2 after it
BasePrice == 100
Steps == (-1)..MaxStep
HistClose(n, d1, d2, i) ==
    LET k == (n + 1) \div 2
    IN  BasePrice + d1 * ((IF i < k THEN i ELSE k) - 1) + d2 * (IF i > k THEN i - k ELSE 0)
HistBars(n, d1, d2) == [i \in 1..n |-> Bar(i, "Asia/Taipei", HistClose(n, d1, d2, i))]
\* daily bars are indexed by "Date", intraday intervals by "Datetime"; an
\* index without a name comes out of reset_index() as the column "index"
IndexNames == {"Date", "Datetime", "index"}
HistResponses ==
    {RaiseResp, EmptyResp}
    \cup {OkResp("Date", HistBars(n, d1, d2)) : n \in 1..MaxBars, d1 \in Steps, d2 \in Steps}
    \cup {OkResp(ix, HistBars(n, 1, -1)) : ix \in IndexNames \ {"Date"}, n \in {2, MaxBars}}

\* comparison series: any non-empty set of trading days, any closes, in
\* chronological order
Dates == 1..MaxDate
RECURSIVE BarsOf(_, _, _)
BarsOf(f, tz, days) ==
    IF days = {} THEN <<>>
    ELSE LET m == CHOOSE x \in days : \A y \in days : x <= y
         IN  <<Bar(m, tz, f[m])>> \o BarsOf(f, tz, days \ {m})
CloseMaps == UNION {[S -> 0..MaxClose] : S \in (SUBSET Dates) \ {{}}}
\* the scenario of five consecutive days, closes in units of 0.1
ScenarioMain == <<1000, 1020, 1010, 1050, 1100>>
ScenarioBench == <<500, 505, 490, 510, 520>>
\* the scenario from its j-th day on: the two series may start on different days
ScenarioBars(c, tz, j) == [i \in 1..(Len(c) - j + 1) |-> Bar(i + j - 1, tz, c[i + j - 1])]
CompareResponses(tz, scenario) ==
    {RaiseResp, EmptyResp}
    \cup {OkResp("Date", ScenarioBars(scenario, tz, j)) : j \in 1..Len(scenario)}
    \cup {OkResp("Date", BarsOf(f, tz, DOMAIN f)) : f \in CloseMaps}

\* --------------------------------------------------------------- fetching
\* reset_index, rename Datetime -> Date, Date.dt.tz_localize(None)
Normalize(resp) ==
    Table([i \in 1..Len(resp.bars) |->
              [resp.bars[i] EXCEPT !.Date = [day |-> @.day, tz |-> "naive"]]])

\* the name of the timestamp column after reset_index() and the rename
DateColumn(resp) == IF resp.index = "Datetime" THEN "Date" ELSE resp.index

\* the try block of utils.get_history_data: how it ends, and the table it
\* passed to _calculate_indicators as the call left it
utils_history_try(resp, include_indicators) ==
    IF resp.kind = "raise" THEN [out |-> Raise("provider"), passed |-> None]
    ELSE IF resp.kind = "empty" THEN [out |-> Return(None), passed |-> None]
    ELSE IF DateColumn(resp) # "Date" THEN [out |-> Raise("KeyError"), passed |-> None]
    ELSE LET df == Normalize(resp)
         IN  IF include_indicators /\ Len(df.bars) > UtilsIndicatorLen
             THEN [out |-> Return(Some(indicators_call(df).ret)),
                   passed |-> Some(indicators_call(df).arg)]
             ELSE [out |-> Return(Some(df)), passed |-> None]

\* utils.get_history_data: the table returned, what st.error showed, and
\* the exception that left the function
utils_get_history_data(resp, include_indicators) ==
    LET t == utils_history_try(resp, include_indicators)
        r == Except(t.out, None)
    IN  [df |-> r.value,
         screen |-> IF t.out.kind = "raise" /\ r.kind = "return"
                    THEN <<"Data Fetch Error">> ELSE <<>>,
         passed |-> t.passed,
         exc |-> r.exc]

\* the try block of Stock_Market.get_history_data
sm_history_try(resp) ==
    IF resp.kind = "raise" THEN Raise("provider")
    ELSE IF resp.kind = "empty" THEN Return(None)
    ELSE IF DateColumn(resp) # "Date" THEN Raise("KeyError")
    ELSE LET df == Normalize(resp)
             c == CloseOf(df.bars)
         IN  Return(Some(IF Len(df.bars) > SmIndicatorLen
                         THEN [df EXCEPT !.columns = @ \cup {"RSI", "SMA5", "SMA20"},
                                         !.RSI = calculate_rsi(c),
                                         !.SMA5 = RollingMean(c, SmaShort),
                                         !.SMA20 = RollingMean(c, SmaLong)]
                         ELSE df))

\* Stock_Market.get_history_data with what left it: [value, exc]
sm_history_call(resp) == Except(sm_history_try(resp), None)

\* Stock_Market.get_history_data
sm_get_history_data(resp) == sm_history_call(resp).value

\* -------------------------------------------------------------- rendering
\* a chart is built by reading columns in order; df[col] of a column that
\* was never added raises KeyError
NoFig == [status |-> "none", traces |-> <<>>, missing |-> ""]
RECURSIVE ReadColumns(_, _, _)
ReadColumns(df, reads, done) ==
    IF reads = <<>> THEN [status |-> "ok", traces |-> done, missing |-> ""]
    ELSE IF Head(reads) \notin df.columns
         THEN [status |-> "KeyError", traces |-> done, missing |-> Head(reads)]
    ELSE ReadColumns(df, Tail(reads), Append(done, Head(reads)))

OhlcReads == <<"Date", "Open", "High", "Low", "Close">>

\* Stock_Market mode 2, the chart of a fetched table
sm_history_chart(df) ==
    ReadColumns(df,
        OhlcReads \o <<"Date", "SMA5", "Date", "SMA20">>
        \o (IF "RSI" \in df.columns THEN <<"Date", "RSI">> ELSE <<>>), <<>>)

\* chart_components.create_candlestick_chart
create_candlestick_chart(df) ==
    IF df.bars = <<>> THEN [status |-> "None", traces |-> <<>>, missing |-> ""]
    ELSE ReadColumns(df,
        OhlcReads
        \o (IF "SMA5" \in df.columns THEN <<"Date", "SMA5">> ELSE <<>>)
        \o (IF "SMA20" \in df.columns THEN <<"Date", "SMA20">> ELSE <<>>)
        \o (IF "BB_Upper" \in df.columns
            THEN <<"Date", "BB_Upper", "Date", "BB_Lower">> ELSE <<>>)
        \o (IF "RSI" \in df.columns THEN <<"Date", "RSI", "Date", "Date">> ELSE <<>>),
        <<>>)

\* ------------------------------------------------------------- comparison
RECURSIVE MatchRowsFuzzy(_, _)
\* mutant: the join tolerates a difference of one day
MatchRowsFuzzy(l, right) ==
    IF right = <<>> THEN <<>>
    ELSE (IF Head(right).Date.day - l.Date.day \in {-1, 0, 1}
          THEN <<[Date |-> l.Date, Close_Main |-> l.Close, Close_Bench |-> Head(right).Close,
                  Return_Main |-> NaN, Return_Bench |-> NaN]>>
          ELSE <<>>) \o MatchRowsFuzzy(l, Tail(right))

RECURSIVE MatchRows(_, _)
\* the rows one left row makes with the right rows of the same Date
MatchRows(l, right) ==
    IF right = <<>> THEN <<>>
    ELSE (IF Head(right).Date = l.Date
          THEN <<[Date |-> l.Date, Close_Main |-> l.Close, Close_Bench |-> Head(right).Close,
                  Return_Main |-> NaN, Return_Bench |-> NaN]>>
          ELSE <<>>) \o MatchRows(l, Tail(right))

RECURSIVE MergeRows(_, _)
MergeRows(left, right) ==
    IF left = <<>> THEN <<>>
    ELSE MatchRows(Head(left), right) \o MergeRows(Tail(left), right)

\* pd.merge(df_main[["Date", "Close"]], df_bench[["Date", "Close"]], on="Date",
\*          suffixes=("_Main", "_Bench"), how="inner"): the rows keep the
\* order of the left keys; the Return columns are filled in afterwards
Merge(df_main, df_bench) == MergeRows(df_main.bars, df_bench.bars)

\* mutant: the return is not rebased to zero
ReturnOfNoRebase(close, base) == FMul(FDiv(Num(close), Num(base)), Num(100))

\* mutant: the change is divided by the close of the row, not by the base
ReturnOfByClose(close, base) ==
    FMul(FSub(Num(1), FDiv(Num(base), Num(close))), Num(100))

\* (close / base - 1) * 100
ReturnOf(close, base) == FMul(FSub(FDiv(Num(close), Num(base)), Num(1)), Num(100))

\* the Return_Main and Return_Bench columns on the rows of a merge
WithReturns(rows, base_main, base_bench) ==
    [i \in 1..Len(rows) |->
        [rows[i] EXCEPT !.Return_Main = ReturnOf(rows[i].Close_Main, base_main),
                        !.Return_Bench = ReturnOf(rows[i].Close_Bench, base_bench)]]

\* mutant: an empty join is returned as the result
calculate_returns_keeps_empty(df_main, df_bench) ==
    IF IsNone(df_main) \/ IsNone(df_bench)
    THEN [ret |-> None, screen |-> <<"calculate_returns error">>]
    ELSE LET df_merge == Merge(The(df_main), The(df_bench))
         IN  IF df_merge = <<>> THEN [ret |-> Some(df_merge), screen |-> <<>>]
             ELSE IF df_merge[1].Close_Main = 0 \/ df_merge[1].Close_Bench = 0
                  THEN [ret |-> None, screen |-> <<>>]
                  ELSE [ret |-> Some(WithReturns(df_merge, df_merge[1].Close_Main,
                                                 df_merge[1].Close_Bench)),
                        screen |-> <<>>]

\* mutant: each series is rebased to its own first bar
calculate_returns_own_start(df_main, df_bench) ==
    IF IsNone(df_main) \/ IsNone(df_bench)
    THEN [ret |-> None, screen |-> <<"calculate_returns error">>]
    ELSE LET df_merge == Merge(The(df_main), The(df_bench))
             base_main == The(df_main).bars[1].Close
             base_bench == The(df_bench).bars[1].Close
         IN  IF df_merge = <<>> THEN [ret |-> None, screen |-> <<>>]
             ELSE IF base_main = 0 \/ base_bench = 0
                  THEN [ret |-> None, screen |-> <<>>]
                  ELSE [ret |-> Some(WithReturns(df_merge, base_main, base_bench)),
                        screen |-> <<>>]

\* utils.calculate_returns; subscripting None raises inside the try block
calculate_returns(df_main, df_bench) ==
    IF IsNone(df_main) \/ IsNone(df_bench)
    THEN [ret |-> None, screen |-> <<"calculate_returns error">>]
    ELSE LET df_merge == Merge(The(df_main), The(df_bench))
         IN  IF df_merge = <<>> THEN [ret |-> None, screen |-> <<>>]
             ELSE LET base_main == df_merge[1].Close_Main
                      base_bench == df_merge[1].Close_Bench
                  IN  IF base_main = 0 \/ base_bench = 0
                      THEN [ret |-> None, screen |-> <<>>]
                      ELSE [ret |-> Some(WithReturns(df_merge, base_main, base_bench)),
                            screen |-> <<>>]

FPositive(a) == ~IsNaN(a) /\ a.n > 0

\* Stock_Market mode 3, after the two fetches
sm_compare(df_main, df_bench) ==
    IF ~IsNone(df_main) /\ ~IsNone(df_bench)
    THEN LET df_merge == Merge(The(df_main), The(df_bench))
         IN  IF df_merge # <<>>
             THEN LET base_price_main == df_merge[1].Close_Main
                      base_price_bench == df_merge[1].Close_Bench
                      rows == WithReturns(df_merge, base_price_main, base_price_bench)
                      diff == FSub(rows[Len(rows)].Return_Main, rows[Len(rows)].Return_Bench)
                  IN  [ret |-> Some(rows),
                       fig |-> [status |-> "ok",
                                traces |-> <<"Date", "Return_Main", "Date", "Return_Bench">>,
                                missing |-> ""],
                       screen |-> <<IF FPositive(diff) THEN "STATUS: LEADING"
                                    ELSE "STATUS: LAGGING">>]
             ELSE [ret |-> None, fig |-> NoFig, screen |-> <<"TIMEFRAME MISMATCH ERROR">>]
    ELSE [ret |-> None, fig |-> NoFig, screen |-> <<"DATA FETCH FAILED">>]

\* ---------------------------------------------------------- session state
\* the counter of table builds stops at MaxBuilds
MaxBuilds == 2

\* twstock.codes: the listed codes and the names of their securities
TwCodes == [c \in {"2330", "0050"} |-> IF c = "2330" THEN "TSMC" ELSE "Taiwan 50"]
\* the codes a user may look up
TargetCodes == DOMAIN TwCodes \cup {"9999"}
\* the key f"{code} {info.name}", as the pair of its parts
NameKey(code) == <<code, TwCodes[code]>>
\* {f"{code} {info.name}": code for code, info in twstock.codes.items()}
BuildStockMap == [k \in {NameKey(c) : c \in DOMAIN TwCodes} |-> k[1]]

\* st.session_state with a freshly built stock_map
Built(ss) ==
    [stock_map |-> Some(BuildStockMap),
     builds |-> IF ss.builds < MaxBuilds THEN ss.builds + 1 ELSE ss.builds]

\* mutant: the table is rebuilt on every call
init_session_state_always(ss) == Built(ss)

\* utils.init_session_state
init_session_state(ss) == IF IsNone(ss.stock_map) THEN Built(ss) ELSE ss

\* the loop over stock_map.items(): the key of the code, or f"CODE {code}"
NameOf(map, target_code) ==
    IF \E k \in DOMAIN map : map[k] = target_code
    THEN CHOOSE k \in DOMAIN map : map[k] = target_code
    ELSE <<"CODE", target_code>>

\* utils.find_stock_name_by_code: the session it leaves and the name
find_stock_name_by_code(ss, target_code) ==
    LET s1 == IF IsNone(ss.stock_map) THEN init_session_state(ss) ELSE ss
    IN  [session |-> s1, name |-> NameOf(The(s1.stock_map), target_code)]

\* Stock_Market.py, lines 95-96, at the top of every script run
sm_init_stock_map(ss) == IF IsNone(ss.stock_map) THEN Built(ss) ELSE ss

\* Stock_Market.find_name_by_code
find_name_by_code(ss, target_code) == NameOf(The(ss.stock_map), target_code)

\* ---------------------------------------------------------------- intraday
\* 1-minute bars: up to MaxMinute of them on a trading day
MaxMinute == 2
MinuteBar(day, minute) ==
    [Datetime |-> [day |-> day, minute |-> minute, tz |-> "Asia/Taipei"],
     Open |-> BasePrice + day, High |-> BasePrice + day + minute,
     Low |-> BasePrice + day, Close |-> BasePrice + day + minute, Volume |-> 1]

RECURSIVE MinuteBars(_, _)
\* the bars of the days in days, f[d] of them on day d, in chronological order
MinuteBars(f, days) ==
    IF days = {} THEN <<>>
    ELSE LET m == CHOOSE x \in days : \A y \in days : x <= y
         IN  [i \in 1..f[m] |-> MinuteBar(m, i)] \o MinuteBars(f, days \ {m})

\* answers to history(period="1d", interval="1m"): the bars of one day
Intraday1d ==
    {RaiseResp, EmptyResp}
    \cup {OkResp("Datetime", MinuteBars([x \in {d} |-> n], {d})) : d \in Dates, n \in 1..MaxMinute}
\* answers to history(period="5d", interval="1m"): the bars of some days
Intraday5d ==
    {RaiseResp, EmptyResp}
    \cup {OkResp("Datetime", MinuteBars(f, DOMAIN f)) :
            f \in UNION {[S -> 1..MaxMinute] : S \in (SUBSET Dates) \ {{}}}}

\* mutant: the date of the first bar
FirstDate(bars) == bars[1].Datetime.day

\* df.index.max().date()
LastDate(bars) ==
    CHOOSE d \in {bars[i].Datetime.day : i \in 1..Len(bars)} :
        \A i \in 1..Len(bars) : bars[i].Datetime.day <= d

RECURSIVE OnDate(_, _)
\* df[df.index.date == date]
OnDate(bars, date) ==
    IF bars = <<>> THEN <<>>
    ELSE (IF Head(bars).Datetime.day = date THEN <<Head(bars)>> ELSE <<>>)
         \o OnDate(Tail(bars), date)

\* a request to the provider, with its answer
Call(req, resp) == [req |-> req, resp |-> resp]

\* the try block of get_intraday_data (the same in utils and Stock_Market):
\* how it ends, and the requests it made
intraday_try(r1, r5) ==
    IF r1.kind = "raise"
    THEN [out |-> Raise("provider"), calls |-> <<Call("1d", r1)>>]
    ELSE IF r1.kind # "empty"
    THEN [out |-> Return(r1.bars), calls |-> <<Call("1d", r1)>>]
    ELSE IF r5.kind = "raise"
    THEN [out |-> Raise("provider"), calls |-> <<Call("1d", r1), Call("5d", r5)>>]
    ELSE IF r5.kind = "empty"
    THEN [out |-> Return(r5.bars), calls |-> <<Call("1d", r1), Call("5d", r5)>>]
    ELSE [out |-> Return(OnDate(r5.bars, LastDate(r5.bars))),
          calls |-> <<Call("1d", r1), Call("5d", r5)>>]

\* get_intraday_data: except: return pd.DataFrame()
get_intraday_data(r1, r5) ==
    LET t == intraday_try(r1, r5)
        r == Except(t.out, <<>>)
    IN  [df |-> r.value, calls |-> t.calls, exc |-> r.exc]

\* ------------------------------------------------------------ fundamentals
\* a metric is missing (None, JSON null, no such key) or a number; ROE and
\* the profit margin are counted in hundredths
Missing == [none |-> TRUE, x |-> 0]
Val(x) == [none |-> FALSE, x |-> x]
\* Python's truth of a metric: None and 0 are false
Truthy(v) == ~v.none /\ v.x # 0

\* the thresholds of the scoring
PeLow == 15
PeHigh == 35
RoeExcellent == 20
RoeGood == 15
MarginMoat == 20
\* yf info with fewer keys counts as blocked
InfoMinLen == 5

PeValues == {Missing} \cup {Val(x) : x \in {-1, 0, PeLow - 1, PeLow, PeHigh, PeHigh + 1}}
RoeValues ==
    {Missing} \cup {Val(x) : x \in {0, RoeGood, RoeGood + 1, RoeExcellent, RoeExcellent + 1}}
MarginValues == {Missing} \cup {Val(x) : x \in {0, MarginMoat, MarginMoat + 1}}

\* an element of the list FMP answers with: a JSON object of metrics, or
\* something that is no object (a string, a number, null)
FmpObject(pe, roe, pm) ==
    [type |-> "object", peRatioTTM |-> pe, pegRatioTTM |-> Val(1), roeTTM |-> roe,
     netProfitMarginTTM |-> pm]
FmpString ==
    [type |-> "string", peRatioTTM |-> Missing, pegRatioTTM |-> Missing, roeTTM |-> Missing,
     netProfitMarginTTM |-> Missing]
FmpObjects == {FmpObject(pe, roe, pm) : pe \in PeValues, roe \in RoeValues, pm \in MarginValues}

\* what requests.get(url).json() does: it raises (timeout, no JSON), or
\* gives a JSON object (FMP's error message) or a JSON list
FmpRaise == [kind |-> "raise", type |-> "none", items |-> <<>>]
FmpJson(type, items) == [kind |-> "json", type |-> type, items |-> items]
FmpResponses ==
    {FmpRaise, FmpJson("object", <<>>), FmpJson("list", <<>>),
     FmpJson("list", <<FmpString>>),
     FmpJson("list", <<FmpString, FmpObject(Val(PeLow), Val(RoeGood), Val(MarginMoat))>>)}
    \cup {FmpJson("list", <<m>>) : m \in FmpObjects}
    \cup {FmpJson("list", <<m, FmpObject(Missing, Missing, Missing)>>) : m \in FmpObjects}

\* what yf.Ticker(ticker).info does: it raises or gives a dict of len keys
YahooRaise ==
    [kind |-> "raise", len |-> 0, trailingPE |-> Missing, forwardPE |-> Missing,
     pegRatio |-> Missing, returnOnEquity |-> Missing, profitMargins |-> Missing,
     beta |-> Missing]
YahooInfo(len, pe, roe, pm) ==
    [kind |-> "info", len |-> len, trailingPE |-> pe, forwardPE |-> Missing,
     pegRatio |-> Missing, returnOnEquity |-> roe, profitMargins |-> pm, beta |-> Val(1)]
YahooResponses ==
    {YahooRaise, YahooInfo(0, Missing, Missing, Missing),
     YahooInfo(InfoMinLen - 1, Val(PeLow), Val(RoeGood), Missing)}
    \cup {YahooInfo(InfoMinLen, pe, roe, pm) :
            pe \in PeValues, roe \in RoeValues, pm \in MarginValues}

\* the analysis dict before scoring
Analysis(pe, forward_pe, peg, roe, pm, beta) ==
    [pe_status |-> "N/A", roe_status |-> "N/A", margin_status |-> "N/A",
     data |-> [PE |-> pe, ForwardPE |-> forward_pe, PEG |-> peg, ROE |-> roe,
               ProfitMargin |-> pm, Beta |-> beta]]

\* mutant: a metric counts as present when it is not None, zero included
evaluate_metrics_zero_scored(analysis) ==
    LET data == analysis.data
    IN  [analysis EXCEPT
            !.pe_status = IF data.PE.none THEN @
                          ELSE IF data.PE.x < PeLow THEN "Undervalued"
                          ELSE IF data.PE.x > PeHigh THEN "Overvalued"
                          ELSE "Fair",
            !.roe_status = IF data.ROE.none THEN @
                           ELSE IF data.ROE.x > RoeExcellent THEN "Excellent"
                           ELSE IF data.ROE.x > RoeGood THEN "Good"
                           ELSE "Average",
            !.margin_status = IF data.ProfitMargin.none THEN @
                              ELSE IF data.ProfitMargin.x > MarginMoat THEN "Moat"
                              ELSE "Competitive"]

\* analysis._evaluate_metrics
evaluate_metrics(analysis) ==
    LET data == analysis.data
    IN  [analysis EXCEPT
            !.pe_status = IF ~Truthy(data.PE) THEN @
                          ELSE IF data.PE.x < PeLow THEN "Undervalued"
                          ELSE IF data.PE.x > PeHigh THEN "Overvalued"
                          ELSE "Fair",
            !.roe_status = IF ~Truthy(data.ROE) THEN @
                           ELSE IF data.ROE.x > RoeExcellent THEN "Excellent"
                           ELSE IF data.ROE.x > RoeGood THEN "Good"
                           ELSE "Average",
            !.margin_status = IF ~Truthy(data.ProfitMargin) THEN @
                              ELSE IF data.ProfitMargin.x > MarginMoat THEN "Moat"
                              ELSE "Competitive"]

\* a try block that ends without a return: the function goes on after it
Pass == [kind |-> "pass", value |-> None, exc |-> <<>>]
\* except Exception: print(...); the function goes on after the handler
ExceptPass(r) == IF r.kind = "raise" THEN Pass ELSE r

\* the try block of get_financial_health, lines 15-42
fmp_try(fmp) ==
    IF fmp.kind = "raise" THEN Raise("requests")
    ELSE IF fmp.type = "list" /\ fmp.items # <<>>
    THEN LET metrics == fmp.items[1]
         IN  IF metrics.type # "object" THEN Raise("AttributeError")
             ELSE Return(Some(evaluate_metrics(
                      Analysis(metrics.peRatioTTM, Val(0), metrics.pegRatioTTM,
                               metrics.roeTTM, metrics.netProfitMarginTTM, Val(0)))))
    ELSE Pass

\* the try block of _get_data_from_yahoo, with its inline scoring
yahoo_try(info) ==
    IF info.kind = "raise" THEN Raise("yfinance")
    ELSE IF info.len < InfoMinLen THEN Raise("ValueError")
    ELSE LET pe == info.trailingPE
             roe == info.returnOnEquity
             profit_margin == info.profitMargins
             analysis == Analysis(pe, info.forwardPE, info.pegRatio, roe, profit_margin,
                                  info.beta)
         IN  Return(Some(
                 [analysis EXCEPT
                     !.pe_status = IF ~Truthy(pe) THEN @
                                   ELSE IF pe.x < PeLow THEN "Undervalued"
                                   ELSE IF pe.x > PeHigh THEN "Overvalued"
                                   ELSE "Fair",
                     !.roe_status = IF ~Truthy(roe) THEN @
                                    ELSE IF roe.x > RoeExcellent THEN "Excellent"
                                    ELSE IF roe.x > RoeGood THEN "Good"
                                    ELSE "Average",
                     !.margin_status = IF ~Truthy(profit_margin) THEN @
                                       ELSE IF profit_margin.x > MarginMoat THEN "Moat"
                                       ELSE "Competitive"]))

\* analysis._get_data_from_yahoo: except: return None
get_data_from_yahoo(info) == Except(yahoo_try(info), None)

\* mutant: Yahoo is asked first, FMP not at all
get_financial_health_yahoo_first(fmp, yahoo) ==
    LET y == get_data_from_yahoo(yahoo)
    IN  [result |-> y.value, calls |-> <<Call("Yahoo", yahoo)>>, exc |-> y.exc]

\* analysis.get_financial_health: the result, the sources queried in order,
\* and the exception that left the function
get_financial_health(fmp, yahoo) ==
    LET t == ExceptPass(fmp_try(fmp))
    IN  IF t.kind = "return"
        THEN [result |-> t.value, calls |-> <<Call("FMP", fmp)>>, exc |-> t.exc]
        ELSE LET y == get_data_from_yahoo(yahoo)
             IN  [result |-> y.value,
                  calls |-> <<Call("FMP", fmp), Call("Yahoo", yahoo)>>,
                  exc |-> y.exc]

\* ------------------------------------------------------------------ state
VARIABLES
    pc,         \* "idle" between two runs, "fetched", "done"
    flow,       \* the operation of the current run
    resp_main,  \* what the provider answered for the main ticker
    resp_bench, \* what the provider answered for the benchmark
    df_main,    \* Optional table of the main ticker (df of the history modes)
    df_bench,   \* Optional table of the benchmark
    df_merge,   \* Optional rows of the comparison
    fig,        \* the chart of the run
    screen,     \* the messages of the run
    last_failure, \* history: the cause and outcome of the last failed comparison
    df_passed,  \* Optional table handed to _calculate_indicators, after the call
    uncaught,   \* the exceptions that left the functions the run called
    stock_map,  \* st.session_state.stock_map, Optional: it outlives the run
    builds,     \* history: how many times stock_map was built
    display_name, \* Optional name a lookup of the run returned
    calls,      \* the requests the run made to its sources, with the answers
    df_intraday, \* Optional bars get_intraday_data returned
    health      \* Optional analysis get_financial_health returned

\* the values of the K-line and comparison runs
history_vars == <<resp_main, resp_bench, df_main, df_bench, df_merge, fig, df_passed>>
\* the values of the lookup, intraday and fundamentals runs
service_vars == <<display_name, calls, df_intraday, health>>
\* st.session_state
session_vars == <<stock_map, builds>>

vars == <<pc, flow, resp_main, resp_bench, df_main, df_bench, df_merge, fig, screen,
          last_failure, df_passed, uncaught, stock_map, builds, display_name, calls,
          df_intraday, health>>

Session == [stock_map |-> stock_map, builds |-> builds]

Init ==
    /\ pc = "idle"
    /\ flow = "none"
    /\ resp_main = NoResp
    /\ resp_bench = NoResp
    /\ df_main = None
    /\ df_bench = None
    /\ df_merge = None
    /\ fig = NoFig
    /\ screen = <<>>
    /\ last_failure = <<>>
    /\ df_passed = None
    /\ uncaught = <<>>
    /\ stock_map = None
    /\ builds = 0
    /\ display_name = None
    /\ calls = <<>>
    /\ df_intraday = None
    /\ health = None

\* utils.get_history_data in the K-line mode of the modular revision
UtilsHistory(resp, include_indicators) ==
    /\ pc = "idle"
    /\ LET r == utils_get_history_data(resp, include_indicators)
       IN  /\ df_main' = r.df
           /\ screen' = r.screen
           /\ df_passed' = r.passed
           /\ uncaught' = r.exc
    /\ resp_main' = resp
    /\ flow' = IF include_indicators THEN "utils_history" ELSE "utils_history_plain"
    /\ pc' = "fetched"
    /\ UNCHANGED <<resp_bench, df_bench, df_merge, fig, last_failure>>
    /\ UNCHANGED <<session_vars, service_vars>>

\* chart_components.create_candlestick_chart on the table just fetched
UtilsChart ==
    /\ pc = "fetched"
    /\ ~IsNone(df_main)
    /\ fig' = create_candlestick_chart(The(df_main))
    /\ pc' = "done"
    /\ UNCHANGED <<flow, resp_main, resp_bench, df_main, df_bench, df_merge, screen,
                   last_failure, df_passed, uncaught>>
    /\ UNCHANGED <<session_vars, service_vars>>

\* Stock_Market mode 2: fetch, then chart or "DATA NOT AVAILABLE"
SmMode2(resp) ==
    /\ pc = "idle"
    /\ LET df == sm_get_history_data(resp)
       IN  /\ df_main' = df
           /\ fig' = IF IsNone(df) THEN NoFig ELSE sm_history_chart(The(df))
           /\ screen' = IF IsNone(df) THEN <<"DATA NOT AVAILABLE">> ELSE <<>>
    /\ uncaught' = sm_history_call(resp).exc
    /\ stock_map' = sm_init_stock_map(Session).stock_map
    /\ builds' = sm_init_stock_map(Session).builds
    /\ resp_main' = resp
    /\ flow' = "sm_history"
    /\ pc' = "done"
    /\ UNCHANGED <<resp_bench, df_bench, df_merge, last_failure, df_passed>>
    /\ UNCHANGED service_vars

\* the comparison of the modular revision: two fetches without indicators,
\* then utils.calculate_returns on what they returned
UtilsCompare(rm, rb) ==
    /\ pc = "idle"
    /\ LET m == utils_get_history_data(rm, FALSE)
           b == utils_get_history_data(rb, FALSE)
           r == calculate_returns(m.df, b.df)
       IN  /\ df_main' = m.df
           /\ df_bench' = b.df
           /\ df_merge' = r.ret
           /\ screen' = m.screen \o b.screen \o r.screen
           /\ uncaught' = m.exc \o b.exc
    /\ resp_main' = rm
    /\ resp_bench' = rb
    /\ flow' = "utils_compare"
    /\ pc' = "done"
    /\ UNCHANGED <<fig, last_failure, df_passed>>
    /\ UNCHANGED <<session_vars, service_vars>>

\* Stock_Market mode 3: INITIATE COMPARISON
SmMode3(rm, rb) ==
    /\ pc = "idle"
    /\ LET m == sm_get_history_data(rm)
           b == sm_get_history_data(rb)
           r == sm_compare(m, b)
       IN  /\ df_main' = m
           /\ df_bench' = b
           /\ df_merge' = r.ret
           /\ fig' = r.fig
           /\ screen' = r.screen
    /\ uncaught' = sm_history_call(rm).exc \o sm_history_call(rb).exc
    /\ stock_map' = sm_init_stock_map(Session).stock_map
    /\ builds' = sm_init_stock_map(Session).builds
    /\ resp_main' = rm
    /\ resp_bench' = rb
    /\ flow' = "sm_compare"
    /\ pc' = "done"
    /\ UNCHANGED <<last_failure, df_passed>>
    /\ UNCHANGED service_vars

\* utils.init_session_state()
UtilsInitSession ==
    /\ pc = "idle"
    /\ stock_map' = init_session_state(Session).stock_map
    /\ builds' = init_session_state(Session).builds
    /\ flow' = "utils_init"
    /\ pc' = "done"
    /\ UNCHANGED <<history_vars, service_vars, screen, uncaught, last_failure>>

\* utils.find_stock_name_by_code(target_code)
UtilsFindName(target_code) ==
    /\ pc = "idle"
    /\ LET r == find_stock_name_by_code(Session, target_code)
       IN  /\ stock_map' = r.session.stock_map
           /\ builds' = r.session.builds
           /\ display_name' = Some(r.name)
    /\ flow' = "utils_find_name"
    /\ pc' = "done"
    /\ UNCHANGED <<history_vars, calls, df_intraday, health, screen, uncaught, last_failure>>

\* a Stock_Market script run up to the sidebar: lines 95-96, then
\* find_name_by_code(stock_id) for a code typed in by hand
SmFindName(target_code) ==
    /\ pc = "idle"
    /\ LET s1 == sm_init_stock_map(Session)
       IN  /\ stock_map' = s1.stock_map
           /\ builds' = s1.builds
           /\ display_name' = Some(find_name_by_code(s1, target_code))
    /\ flow' = "sm_find_name"
    /\ pc' = "done"
    /\ UNCHANGED <<history_vars, calls, df_intraday, health, screen, uncaught, last_failure>>

\* utils.get_intraday_data(ticker)
UtilsIntraday(r1, r5) ==
    /\ pc = "idle"
    /\ LET r == get_intraday_data(r1, r5)
       IN  /\ df_intraday' = Some(r.df)
           /\ calls' = r.calls
           /\ uncaught' = r.exc
    /\ flow' = "utils_intraday"
    /\ pc' = "done"
    /\ UNCHANGED <<history_vars, session_vars, display_name, health, screen, last_failure>>

\* Stock_Market mode 1: get_intraday_data, then the chart or "NO SIGNAL"
SmMode1(r1, r5) ==
    /\ pc = "idle"
    /\ LET r == get_intraday_data(r1, r5)
       IN  /\ df_intraday' = Some(r.df)
           /\ calls' = r.calls
           /\ uncaught' = r.exc
           /\ fig' = IF r.df # <<>>
                     THEN [status |-> "ok", traces |-> <<"Close", "Volume">>, missing |-> ""]
                     ELSE NoFig
           /\ screen' = IF r.df # <<>> THEN <<"LAST UPDATED">> ELSE <<"NO SIGNAL">>
    /\ stock_map' = sm_init_stock_map(Session).stock_map
    /\ builds' = sm_init_stock_map(Session).builds
    /\ flow' = "sm_intraday"
    /\ pc' = "done"
    /\ UNCHANGED <<resp_main, resp_bench, df_main, df_bench, df_merge, df_passed,
                   display_name, health, last_failure>>

\* analysis.get_financial_health(ticker)
FinancialHealth(fmp, yahoo) ==
    /\ pc = "idle"
    /\ LET r == get_financial_health(fmp, yahoo)
       IN  /\ health' = r.result
           /\ calls' = r.calls
           /\ uncaught' = r.exc
    /\ flow' = "financial_health"
    /\ pc' = "done"
    /\ UNCHANGED <<history_vars, session_vars, display_name, df_intraday, screen,
                   last_failure>>

CompareFlows == {"utils_compare", "sm_compare"}
InCompare == pc = "done" /\ flow \in CompareFlows
BothFetched == ~IsNone(df_main) /\ ~IsNone(df_bench)
DaysOf(df) == {The(df).bars[i].Date : i \in 1..Len(The(df).bars)}
CommonDays == DaysOf(df_main) \cap DaysOf(df_bench)

\* why the comparison of this run failed (section 7 of the specification)
Cause ==
    IF ~BothFetched THEN "NoData"
    ELSE IF CommonDays = {} THEN "CalendarMismatch"
    ELSE LET first == CHOOSE d \in CommonDays : \A e \in CommonDays : d.day <= e.day
             cm == CHOOSE i \in 1..Len(The(df_main).bars) : The(df_main).bars[i].Date = first
             cb == CHOOSE i \in 1..Len(The(df_bench).bars) : The(df_bench).bars[i].Date = first
         IN  IF The(df_main).bars[cm].Close = 0 \/ The(df_bench).bars[cb].Close = 0
             THEN "DegenerateBase" ELSE "ok"

\* what the caller of the run's functions has in hand to branch on: whether
\* the fetches returned tables, whether the comparison returned one, and
\* what the run put on the screen
Outcome ==
    [fetched |-> BothFetched, absent |-> IsNone(df_merge), fig |-> fig.status,
     screen |-> screen]

Reset ==
    /\ pc # "idle"
    /\ pc' = "idle"
    /\ flow' = "none"
    /\ resp_main' = NoResp
    /\ resp_bench' = NoResp
    /\ df_main' = None
    /\ df_bench' = None
    /\ df_merge' = None
    /\ fig' = NoFig
    /\ screen' = <<>>
    /\ df_passed' = None
    /\ uncaught' = <<>>
    /\ display_name' = None
    /\ calls' = <<>>
    /\ df_intraday' = None
    /\ health' = None
    /\ UNCHANGED session_vars

\* the next script run starts from nothing: the tables are request scoped,
\* st.session_state is kept
Rerun ==
    /\ Reset
    /\ UNCHANGED last_failure

\* Rerun, remembering a failed comparison for the runs that follow
RerunRecord ==
    /\ Reset
    /\ last_failure' =
          IF InCompare /\ Cause # "ok"
          THEN <<[flow |-> flow, cause |-> Cause, outcome |-> Outcome]>>
          ELSE last_failure

\* Yahoo answers when it is asked; for a run that takes FMP's metrics its
\* answer is immaterial, and one answer stands for all
YahooAnswers(fmp) ==
    IF fmp.kind = "json" /\ fmp.type = "list" /\ fmp.items # <<>>
       /\ fmp.items[1].type = "object"
    THEN {YahooInfo(InfoMinLen, Val(PeLow), Val(RoeGood), Val(MarginMoat))}
    ELSE YahooResponses

\* the inputs of a run are chosen when the run starts
Run ==
    \/ /\ pc = "idle"
       /\ \E resp \in HistResponses, inc \in BOOLEAN : UtilsHistory(resp, inc)
    \/ UtilsChart
    \/ /\ pc = "idle"
       /\ \E resp \in HistResponses : SmMode2(resp)
    \/ /\ pc = "idle"
       /\ \E rm \in CompareResponses("Asia/Taipei", ScenarioMain),
             rb \in CompareResponses("America/New_York", ScenarioBench) : UtilsCompare(rm, rb)
    \/ /\ pc = "idle"
       /\ \E rm \in CompareResponses("Asia/Taipei", ScenarioMain),
             rb \in CompareResponses("America/New_York", ScenarioBench) : SmMode3(rm, rb)
    \/ UtilsInitSession
    \/ /\ pc = "idle"
       /\ \E target_code \in TargetCodes : UtilsFindName(target_code)
    \/ /\ pc = "idle"
       /\ \E target_code \in TargetCodes : SmFindName(target_code)
    \/ /\ pc = "idle"
       /\ \E r1 \in Intraday1d, r5 \in Intraday5d : UtilsIntraday(r1, r5)
    \/ /\ pc = "idle"
       /\ \E r1 \in Intraday1d, r5 \in Intraday5d : SmMode1(r1, r5)
    \/ /\ pc = "idle"
       /\ \E fmp \in FmpResponses :
             \E yahoo \in YahooAnswers(fmp) : FinancialHealth(fmp, yahoo)

Next == Run \/ Rerun

Spec == Init /\ [][Next]_vars

\* the same runs, with the history of failed comparisons kept
NextReports == Run \/ RerunRecord

SpecReports == Init /\ [][NextReports]_vars

\* ================================================================ claims
HistoryFetched == pc \in {"fetched", "done"} /\ ~IsNone(df_main)
BollingerColumns == {"BB_Upper", "BB_Lower"}

\* C1: utils.get_history_data, asked for indicators, returns a table without
\* the Bollinger columns for a series of exactly 19 bars and with them for a
\* series of exactly 20 bars.
C1_ColumnOmission ==
    (HistoryFetched /\ flow = "utils_history")
        => /\ Len(The(df_main).bars) = 19
                => The(df_main).columns \cap BollingerColumns = {}
           /\ Len(The(df_main).bars) = 20
                => BollingerColumns \subseteq The(df_main).columns

\* C2: the chart of a fetched history table never reads an indicator column
\* that was not added, so no render step ends in a KeyError.
C2_NoMissingColumnRead ==
    fig.status # "KeyError"

\* the first row of the join of the two fetched tables
JoinedFirst == Merge(The(df_main), The(df_bench))[1]

\* C3: on every comparison path, a zero close of either series on the first
\* row of the joined table makes the comparison fail: no table of returns.
C3_DegenerateBase ==
    (InCompare /\ BothFetched /\ CommonDays # {}
     /\ (JoinedFirst.Close_Main = 0 \/ JoinedFirst.Close_Bench = 0))
        => IsNone(df_merge)

\* C4: two series with disjoint timestamp sets give the failure outcome (no
\* table, no chart, and in Stock_Market the mismatch message); an empty
\* table is never returned as a result.
C4_CalendarMismatch ==
    /\ (InCompare /\ BothFetched /\ CommonDays = {})
          => /\ IsNone(df_merge)
             /\ fig.status # "ok"
             /\ flow = "sm_compare" => screen = <<"TIMEFRAME MISMATCH ERROR">>
    /\ ~IsNone(df_merge) => The(df_merge) # <<>>
C4_Witness ==
    InCompare /\ BothFetched /\ CommonDays = {} /\ Len(The(df_main).bars) = 2

\* C5: a comparison that fails for one cause (NoData, CalendarMismatch,
\* DegenerateBase) leaves the caller with an outcome different from that of
\* an earlier comparison of the same program that failed for another cause.
C5_FailuresDistinct ==
    (InCompare /\ last_failure # <<>> /\ Cause # "ok")
        => \/ last_failure[1].flow # flow
           \/ last_failure[1].cause = Cause
           \/ last_failure[1].outcome # Outcome

\* a comparison produced a table of returns from non-zero base closes
ReturnPair ==
    /\ InCompare
    /\ ~IsNone(df_merge)
    /\ JoinedFirst.Close_Main # 0
    /\ JoinedFirst.Close_Bench # 0

\* C6: the first row of every Return Pair has Return_Main = 0 and
\* Return_Bench = 0 exactly.
C6_FirstRowZero ==
    ReturnPair
        => /\ FEq(The(df_merge)[1].Return_Main, Num(0))
           /\ FEq(The(df_merge)[1].Return_Bench, Num(0))
C6_Witness ==
    /\ ReturnPair
    /\ flow = "utils_compare"
    /\ Len(The(df_merge)) >= 2
    /\ ~FEq(The(df_merge)[2].Return_Main, Num(0))

\* C7: the timestamps of the table calculate_returns returns are exactly
\* the timestamps the two inputs share, each once, and each row carries the
\* closes the two inputs record at its timestamp.
C7_InnerJoin ==
    (InCompare /\ ~IsNone(df_merge))
        => LET rows == The(df_merge)
               m == The(df_main).bars
               b == The(df_bench).bars
           IN  /\ {rows[i].Date : i \in 1..Len(rows)} = CommonDays
               /\ Len(rows) = Cardinality(CommonDays)
               /\ \A i \in 1..Len(rows) :
                     /\ \E j \in 1..Len(m) :
                           m[j].Date = rows[i].Date /\ m[j].Close = rows[i].Close_Main
                     /\ \E j \in 1..Len(b) :
                           b[j].Date = rows[i].Date /\ b[j].Close = rows[i].Close_Bench
C7_Witness ==
    /\ InCompare
    /\ flow = "utils_compare"
    /\ ~IsNone(df_merge)
    /\ DaysOf(df_main) \ CommonDays # {}
    /\ DaysOf(df_bench) \ CommonDays # {}

\* r is (close / base - 1) * 100, stated on integers
IsReturn(r, close, base) == IsFin(r) /\ r.n * base = 100 * (close - base) * r.d

ScenarioReturnsMain == <<0, 2, 1, 5, 10>>
ScenarioReturnsBench == <<0, 1, -2, 2, 4>>
ScenarioRun ==
    /\ InCompare
    /\ resp_main = OkResp("Date", ScenarioBars(ScenarioMain, "Asia/Taipei", 1))
    /\ resp_bench = OkResp("Date", ScenarioBars(ScenarioBench, "America/New_York", 1))

\* C8: every row i of a Return Pair has Return_Main[i] = (Close_Main[i] /
\* base_main - 1) * 100 and the same for the benchmark, the bases being the
\* closes of row 0; the five-day scenario gives [0, 2, 1, 5, 10] and
\* [0, 1, -2, 2, 4].
C8_ReturnFormula ==
    /\ ReturnPair
          => LET rows == The(df_merge)
             IN  \A i \in 1..Len(rows) :
                    /\ IsReturn(rows[i].Return_Main, rows[i].Close_Main, rows[1].Close_Main)
                    /\ IsReturn(rows[i].Return_Bench, rows[i].Close_Bench, rows[1].Close_Bench)
    /\ ScenarioRun
          => /\ ~IsNone(df_merge)
             /\ Len(The(df_merge)) = Len(ScenarioReturnsMain)
             /\ \A i \in 1..Len(The(df_merge)) :
                   /\ FEq(The(df_merge)[i].Return_Main, Num(ScenarioReturnsMain[i]))
                   /\ FEq(The(df_merge)[i].Return_Bench, Num(ScenarioReturnsBench[i]))
C8_Witness == ScenarioRun /\ flow = "utils_compare"

\* the close a fetched table records on a day
CloseOn(df, day) ==
    LET i == CHOOSE j \in 1..Len(The(df).bars) : The(df).bars[j].Date = day
    IN  The(df).bars[i].Close
EarliestCommon == CHOOSE d \in CommonDays : \A e \in CommonDays : d.day <= e.day

\* C9: the returns are rebased to the closes of the chronologically earliest
\* timestamp common to both series, not to each series' own first bar, and
\* the rows of the returned table are in chronological order.
C9_JointRebasing ==
    ReturnPair
        => LET rows == The(df_merge)
           IN  /\ rows[1].Date = EarliestCommon
               /\ \A i \in 1..(Len(rows) - 1) : rows[i].Date.day < rows[i + 1].Date.day
               /\ \A i \in 1..Len(rows) :
                     /\ IsReturn(rows[i].Return_Main, rows[i].Close_Main,
                                 CloseOn(df_main, EarliestCommon))
                     /\ IsReturn(rows[i].Return_Bench, rows[i].Close_Bench,
                                 CloseOn(df_bench, EarliestCommon))
C9_Witness ==
    /\ ReturnPair
    /\ flow = "utils_compare"
    /\ Len(The(df_merge)) >= 2
    /\ The(df_main).bars[1].Date # The(df_bench).bars[1].Date
    /\ The(df_main).bars[1].Close # CloseOn(df_main, EarliestCommon)

NonDecreasing(c) == \A i \in 1..(Len(c) - 1) : c[i] <= c[i + 1]

\* C10: for a monotonically non-decreasing close sequence (a constant one
\* included) the average loss is zero and every RSI value after the first
\* RsiWindow bars is 100, never NaN.
C10_RsiSaturation ==
    (HistoryFetched /\ "RSI" \in The(df_main).columns
     /\ NonDecreasing(CloseOf(The(df_main).bars)))
        => \A i \in (RsiWindow + 1)..Len(The(df_main).bars) :
              BEq(The(df_main).RSI[i], BNum(100))

\* a fetched history table that carries the RSI column
HasRsi == HistoryFetched /\ "RSI" \in The(df_main).columns
Defined(v) == v.k # "nan"

\* C11: in every indicator table of a series of at least 15 bars, every
\* defined (non-NaN) RSI value is a number in the closed interval [0, 100].
C11_RsiBounds ==
    (HasRsi /\ Len(The(df_main).bars) >= 15)
        => \A i \in 1..Len(The(df_main).RSI) :
              LET v == The(df_main).RSI[i]
              IN  Defined(v) => /\ v.k \in {"fin", "nzero"}
                                /\ BLeq(BNum(0), v)
                                /\ BLeq(v, BNum(100))
C11_Witness ==
    /\ HasRsi
    /\ flow = "utils_history"
    /\ \E i \in 1..Len(The(df_main).RSI) :
          LET v == The(df_main).RSI[i]
          IN  v.k = "fin" /\ ~BEq(v, BNum(0)) /\ ~BEq(v, BNum(100)) /\ BLeq(v, BNum(100))

\* C12: the RSI column is undefined on the first 14 bars (bar indices 0..13)
\* and, where the column has a defined value at all, the 15th bar has one.
C12_RsiWarmup ==
    HasRsi
        => /\ \A i \in 1..14 : ~Defined(The(df_main).RSI[i])
           /\ (\E i \in 1..Len(The(df_main).RSI) : Defined(The(df_main).RSI[i]))
                 => Defined(The(df_main).RSI[15])

\* two RSI values agree: both undefined, or the same number
SameValue(a, b) == (a.k = "nan" /\ b.k = "nan") \/ BEq(a, b)

\* C13: every RSI column of the program is the RSI of Wilder's averages
\* (alpha = 1/14) of the gains and losses, and the two implementations,
\* utils._calculate_indicators and Stock_Market.calculate_rsi, give the same
\* value on the closes of every fetched table.
C13_WilderConsistent ==
    HasRsi
        => LET c == CloseOf(The(df_main).bars)
               wilder == UtilsRsi(c)
               other == calculate_rsi(c)
           IN  \A i \in 1..Len(c) :
                  /\ SameValue(The(df_main).RSI[i], wilder[i])
                  /\ SameValue(wilder[i], other[i])

\* v is the arithmetic mean of c[i - w + 1], ..., c[i], stated on integers
IsMean(v, c, i, w) == IsFin(v) /\ v.n * w = v.d * SumSeq(c, i - w + 1, i)

\* C14: SMA5[i] is the mean of the closes of bars i-4..i and SMA20[i] the
\* mean of the closes of bars i-19..i; SMA5 is NaN (absent, not zero) on the
\* first 4 bars and SMA20 on the first 19.
C14_MovingAverages ==
    (HistoryFetched /\ "SMA5" \in The(df_main).columns)
        => LET t == The(df_main)
               c == CloseOf(t.bars)
           IN  /\ "SMA20" \in t.columns
               /\ Len(t.SMA5) = Len(c)
               /\ Len(t.SMA20) = Len(c)
               /\ \A i \in 1..Len(c) :
                     /\ IF i <= 4 THEN IsNaN(t.SMA5[i]) ELSE IsMean(t.SMA5[i], c, i, 5)
                     /\ IF i <= 19 THEN IsNaN(t.SMA20[i]) ELSE IsMean(t.SMA20[i], c, i, 20)
C14_Witness ==
    /\ HistoryFetched
    /\ flow = "utils_history"
    /\ "SMA5" \in The(df_main).columns
    /\ Len(The(df_main).bars) = 22
    /\ ~FEq(The(df_main).SMA20[22], Num(The(df_main).bars[22].Close))
    /\ ~FEq(The(df_main).SMA5[22], The(df_main).SMA20[22])

\* var is the square of the standard deviation (pandas' default, n - 1 in
\* the divisor) of c[i - 19], ..., c[i], stated on integers:
\* 19 * var = sum (c[j] - s / 20)^2, with s the sum of the twenty closes
IsVar20(var, c, i) ==
    LET s == SumSeq(c, i - 19, i)
        dev == [j \in 1..Len(c) |-> (20 * c[j] - s) * (20 * c[j] - s)]
    IN  IsFin(var) /\ var.n >= 0 /\ var.n * (19 * 400) = var.d * SumSeq(dev, i - 19, i)

\* C15: where they are defined, BB_Upper = SMA20 + 2 * std20 and BB_Lower =
\* SMA20 - 2 * std20, std20 being the rolling standard deviation of the last
\* 20 closes, so that BB_Lower <= SMA20 <= BB_Upper; both bands are
\* undefined on exactly the first 19 bars.
C15_Bollinger ==
    (HistoryFetched /\ "BB_Upper" \in The(df_main).columns)
        => LET t == The(df_main)
               c == CloseOf(t.bars)
           IN  /\ "BB_Lower" \in t.columns
               /\ Len(t.BB_Upper) = Len(c)
               /\ Len(t.BB_Lower) = Len(c)
               /\ \A i \in 1..Len(c) :
                     LET up == t.BB_Upper[i]
                         lo == t.BB_Lower[i]
                     IN  IF i <= 19 THEN up.k = "nan" /\ lo.k = "nan"
                         ELSE /\ up.k = "fin" /\ lo.k = "fin"
                              /\ up.mid = t.SMA20[i] /\ lo.mid = t.SMA20[i]
                              /\ IsMean(t.SMA20[i], c, i, 20)
                              /\ IsVar20(up.var, c, i) /\ IsVar20(lo.var, c, i)
                              /\ up.mult = 2 /\ lo.mult = -2
C15_Witness ==
    /\ HistoryFetched
    /\ flow = "utils_history"
    /\ "BB_Upper" \in The(df_main).columns
    /\ Len(The(df_main).bars) = 22
    /\ The(df_main).BB_Upper[22].k = "fin"
    /\ The(df_main).BB_Upper[22].var.n > 0
    /\ The(df_main).BB_Upper[20].var # The(df_main).BB_Upper[22].var

\* C16: _calculate_indicators leaves the caller's table as it was (no
\* derived column on it), and the table it returns has the same bars in the
\* same order with the same timestamp, open, high, low, close and volume.
C16_NonDestructive ==
    (pc \in {"fetched", "done"} /\ ~IsNone(df_passed))
        => LET arg == The(df_passed)
               ret == The(df_main)
               src == resp_main.bars
           IN  /\ arg.columns = BaseColumns
               /\ arg = Normalize(resp_main)
               /\ BaseColumns \subseteq ret.columns
               /\ Len(ret.bars) = Len(src)
               /\ \A i \in 1..Len(src) :
                     /\ ret.bars[i] = arg.bars[i]
                     /\ ret.bars[i].Date.day = src[i].Date.day
                     /\ \A col \in {"Open", "High", "Low", "Close", "Volume"} :
                           ret.bars[i][col] = src[i][col]
C16_Witness ==
    /\ pc = "fetched"
    /\ ~IsNone(df_passed)
    /\ IndicatorColumns \subseteq The(df_main).columns
    /\ Len(The(df_main).bars) = 21
    /\ The(df_main).RSI[21].k = "fin"

HistoryFlows == {"utils_history", "utils_history_plain", "sm_history"}
\* the answers of the provider and the tables get_history_data made of them
Fetches ==
    IF flow \in CompareFlows
    THEN {<<resp_main, df_main>>, <<resp_bench, df_bench>>}
    ELSE {<<resp_main, df_main>>}
\* every bar of the answer is in the table, with a naive timestamp, and
\* every derived column the table has covers every bar
Complete(t, resp) ==
    /\ BaseColumns \subseteq t.columns
    /\ Len(t.bars) = Len(resp.bars)
    /\ \A i \in 1..Len(t.bars) :
          t.bars[i] = [resp.bars[i] EXCEPT !.Date = [day |-> @.day, tz |-> "naive"]]
    /\ \A col \in IndicatorColumns :
          Len(t[col]) = IF col \in t.columns THEN Len(t.bars) ELSE 0

\* C17: get_history_data returns None when the provider raises, answers
\* with an empty table, or the normalisation raises (no "Date" column), and
\* otherwise the complete normalised series; no exception leaves it.
C17_FetchFailureAbsent ==
    (pc \in {"fetched", "done"} /\ flow \in HistoryFlows \cup CompareFlows)
        => /\ uncaught = <<>>
           /\ \A f \in Fetches :
                 /\ (f[1].kind \in {"raise", "empty"} \/ f[1].index \notin {"Date", "Datetime"})
                       => IsNone(f[2])
                 /\ ~IsNone(f[2]) => f[1].kind = "ok" /\ Complete(The(f[2]), f[1])
C17_Witness ==
    /\ pc = "done"
    /\ flow = "sm_compare"
    /\ resp_main.kind = "raise"
    /\ resp_bench.kind = "empty"
    /\ IsNone(df_main)
    /\ IsNone(df_bench)

\* C18: stock_map is built at most once in a session and, once there, is
\* never changed by any call; after find_stock_name_by_code the table is
\* there and the name comes from it.
C18_WriteOnce ==
    /\ [](builds <= 1)
    /\ [](IsNone(stock_map) <=> builds = 0)
    /\ [][(~IsNone(stock_map)) => (stock_map' = stock_map /\ builds' = builds)]_vars
    /\ []((pc = "done" /\ flow \in {"utils_find_name", "sm_find_name"})
             => /\ stock_map = Some(BuildStockMap)
                /\ \E c \in TargetCodes :
                      display_name = Some(IF c \in DOMAIN TwCodes THEN NameKey(c)
                                          ELSE <<"CODE", c>>))
C18_Witness ==
    /\ pc = "done"
    /\ flow = "utils_find_name"
    /\ builds = 1
    /\ display_name = Some(NameKey("2330"))

IntradayRun == pc = "done" /\ flow \in {"utils_intraday", "sm_intraday"}

\* C19: get_intraday_data asks for the 1-day series first and for the
\* 5-day series only after the 1-day answer was empty; of a non-empty 5-day
\* answer it returns bars of that answer, all on the date of its latest
\* bar; if a request raises, it returns an empty table; nothing leaves it.
C19_IntradayFallback ==
    IntradayRun
        => /\ Len(calls) \in {1, 2}
           /\ calls[1].req = "1d"
           /\ Len(calls) = 2 => (calls[2].req = "5d" /\ calls[1].resp.kind = "empty")
           /\ (Len(calls) = 2 /\ calls[2].resp.kind = "ok")
                 => LET all == calls[2].resp.bars
                        out == The(df_intraday)
                    IN  /\ out # <<>>
                        /\ \A i \in 1..Len(out) :
                              /\ \E j \in 1..Len(all) : out[i] = all[j]
                              /\ \A j \in 1..Len(all) :
                                    all[j].Datetime.day <= out[i].Datetime.day
           /\ (\E i \in 1..Len(calls) : calls[i].resp.kind = "raise")
                 => The(df_intraday) = <<>>
           /\ uncaught = <<>>
C19_Witness ==
    /\ IntradayRun
    /\ Len(calls) = 2
    /\ calls[2].resp.kind = "ok"
    /\ Len(The(df_intraday)) = 2
    /\ Len(calls[2].resp.bars) > 2

HealthRun == pc = "done" /\ flow = "financial_health"
YahooAsked == \E i \in 1..Len(calls) : calls[i].req = "Yahoo"
FmpAnswer == calls[1].resp
NonEmptyList(fmp) == fmp.kind = "json" /\ fmp.type = "list" /\ fmp.items # <<>>
\* the data of the result are the metrics of the first element of the list
DataFromFirst(fmp) ==
    /\ ~IsNone(health)
    /\ The(health).data.PE = fmp.items[1].peRatioTTM
    /\ The(health).data.PEG = fmp.items[1].pegRatioTTM
    /\ The(health).data.ROE = fmp.items[1].roeTTM
    /\ The(health).data.ProfitMargin = fmp.items[1].netProfitMarginTTM
    /\ The(health).data.ForwardPE = Val(0)
    /\ The(health).data.Beta = Val(0)
\* the Yahoo fallback was asked and failed: it raised or gave a short info
YahooFailed ==
    \E i \in 1..Len(calls) :
        /\ calls[i].req = "Yahoo"
        /\ (calls[i].resp.kind = "raise" \/ calls[i].resp.len < 5)

\* C20, as stated: FMP is queried first; Yahoo only if the FMP attempt
\* raised or returned something other than a non-empty list; a non-empty
\* list gives the data of the result and no Yahoo query; None only when
\* the Yahoo fallback failed too; nothing is raised.
C20_SourceFallback ==
    HealthRun
        => /\ calls[1].req = "FMP"
           /\ YahooAsked => (FmpAnswer.kind = "raise" \/ ~NonEmptyList(FmpAnswer))
           /\ NonEmptyList(FmpAnswer) => (~YahooAsked /\ DataFromFirst(FmpAnswer))
           /\ IsNone(health) => YahooFailed
           /\ uncaught = <<>>

\* the first element of the list is a JSON object of metrics
WellFormed(fmp) == NonEmptyList(fmp) /\ fmp.items[1].type = "object"

\* C20, amended: as above, for a non-empty list whose first element is a
\* JSON object; a non-empty list whose first element is no object sends
\* the function to Yahoo like a failed request.
C20_SourceFallbackAmended ==
    HealthRun
        => /\ calls[1].req = "FMP"
           /\ Len(calls) <= 2
           /\ YahooAsked <=> ~WellFormed(FmpAnswer)
           /\ WellFormed(FmpAnswer) => DataFromFirst(FmpAnswer)
           /\ IsNone(health) => YahooFailed
           /\ uncaught = <<>>
C20_Witness ==
    /\ HealthRun
    /\ WellFormed(FmpAnswer)
    /\ FmpAnswer.items[1].peRatioTTM = Missing
    /\ FmpAnswer.items[1].roeTTM = Missing
    /\ FmpAnswer.items[1].netProfitMarginTTM = Missing
    /\ Len(calls) = 1
    /\ The(health).pe_status = "N/A"

\* the statuses as the claim words them; ROE and margin in hundredths
NoMetric(v) == v.none \/ v.x = 0
PeStatus(v) ==
    IF NoMetric(v) THEN "N/A"
    ELSE IF v.x < 15 THEN "Undervalued" ELSE IF v.x > 35 THEN "Overvalued" ELSE "Fair"
RoeStatus(v) ==
    IF NoMetric(v) THEN "N/A"
    ELSE IF v.x > 20 THEN "Excellent" ELSE IF v.x > 15 THEN "Good" ELSE "Average"
MarginStatus(v) ==
    IF NoMetric(v) THEN "N/A" ELSE IF v.x > 20 THEN "Moat" ELSE "Competitive"
Statuses(a) == <<a.pe_status, a.roe_status, a.margin_status>>

\* C21: whichever source gave the result, its three statuses are those the
\* thresholds assign to its (PE, ROE, Profit Margin), "N/A" exactly for a
\* missing or zero metric; and on that triple _evaluate_metrics and the
\* inline scoring of _get_data_from_yahoo assign the same statuses.
C21_ScoringEquivalence ==
    (HealthRun /\ ~IsNone(health))
        => LET d == The(health).data
               by_fmp == evaluate_metrics(Analysis(d.PE, Val(0), d.PEG, d.ROE,
                                                   d.ProfitMargin, Val(0)))
               by_yahoo == yahoo_try(YahooInfo(InfoMinLen, d.PE, d.ROE, d.ProfitMargin))
           IN  /\ Statuses(The(health))
                     = <<PeStatus(d.PE), RoeStatus(d.ROE), MarginStatus(d.ProfitMargin)>>
               /\ by_yahoo.kind = "return"
               /\ Statuses(by_fmp) = Statuses(The(by_yahoo.value))
               /\ (The(health).pe_status = "N/A") <=> NoMetric(d.PE)
               /\ (The(health).roe_status = "N/A") <=> NoMetric(d.ROE)
               /\ (The(health).margin_status = "N/A") <=> NoMetric(d.ProfitMargin)
C21_Witness ==
    /\ HealthRun
    /\ ~YahooAsked
    /\ ~IsNone(health)
    /\ The(health).data.PE = Val(0)
    /\ The(health).data.ROE = Val(20)
    /\ The(health).data.ProfitMargin = Val(21)
    /\ Statuses(The(health)) = <<"N/A", "Good", "Moat">>

====
